---- MODULE Spec2Model ----
(***************************************************************************)
(* Expression graph of the marian AD engine: node construction with hash   *)
(* based common-subexpression elimination, the forward and backward        *)
(* drivers and the edge-counted release of node storage.                   *)
(*                                                                         *)
(* Nodes are heap objects (shared pointers in the source); an object is    *)
(* identified by a number that stands for its address.  Operands of a new  *)
(* node are handles obtained in the current generation, i.e. members of    *)
(* nodes_.  Hash values are modelled as the structure boost::hash_combine  *)
(* is applied to, so distinct inputs give distinct hashes (no collisions). *)
(***************************************************************************)
EXTENDS Integers, Sequences, FiniteSets, TLC

\* ------------------------------------------------------------------ bounds
MaxNodes == 3
MaxCalls == 4
MaxGen == 1

\* size_t edges_ wraps modulo 2^64; the model keeps the wrap with a modulus
\* no reachable run of the bounded model gets near.
SizeMod == 1048576

NONE == "none"
Names == {"none", "w"}
UserNames == Names \ {NONE}
MaxArity == 2
DefaultShape == <<1, 1, 1, 1>>
Shapes == {<<2, 1, 1, 1>>, <<3, 1, 1, 1>>}
ObjIds == 1 .. (MaxNodes + Cardinality(Names) + 1)
NoObj == 0

VARIABLES
  heap,       \* object -> node fields (the live Node objects)
  count_,     \* ExpressionGraph::count_
  nodes_,     \* ExpressionGraph::nodes_
  tapes_,     \* ExpressionGraph::tapes_
  tapeMap_,   \* ExpressionGraph::tapeMap_
  named_,     \* ExpressionGraph::named_
  inputs_,    \* ExpressionGraph::inputs_
  topNodes_,  \* ExpressionGraph::topNodes_
  hashMap_,   \* ExpressionGraph::hashMap_
  params,     \* ExpressionGraph::params_ (name -> parameter node)
  pc,         \* "idle", or the pass the driving thread is inside
  it,         \* iterator of the running pass (number of nodes before it)
  chain,      \* TRUE while forward() runs as the first half of backprop()
  last,       \* the last API call: operation, arguments, result, error
  gen,        \* number of clear() calls so far
  calls,      \* API calls made in this generation
  proto,      \* history: this generation followed build, forward, backward
  uaf         \* history: nodes whose storage was accessed after its release

vars == <<heap, count_, nodes_, tapes_, tapeMap_, named_, inputs_, topNodes_,
          hashMap_, params, pc, it, chain, last, gen, calls, proto, uaf>>

\* ----------------------------------------------------------------- helpers
Range(s) == {s[i] : i \in DOMAIN s}

Max(a, b) == IF a >= b THEN a ELSE b

Restrict(f, S) == [x \in S |-> f[x]]

Occurrences(s, x) == Cardinality({i \in DOMAIN s : s[i] = x})

\* ------------------------------------------------------------- node fields
NoHash == [name |-> "", type |-> "", kids |-> <<>>, ptr |-> 0, extra |-> <<>>]

\* the operator parameter of a node class without one
NoArg == <<>>

\* Node::Node and the member initialisers of node.h
NewNode(kind, children, trainable, shape) ==
  [kind |-> kind, id_ |-> 0, edges_ |-> 0, trainable_ |-> trainable,
   children_ |-> children, shape_ |-> shape, name_ |-> NONE, hash_ |-> NoHash,
   val |-> "null", adj |-> "null", grad |-> 0, touched |-> FALSE,
   nfwd |-> 0, nbwd |-> 0, fval |-> "null", fedges |-> 0, bops |-> {},
   markedForDebug_ |-> FALSE, nout |-> 0, e0 |-> 0, arg |-> NoArg,
   nfree |-> 0]

IsSource(n) == n.children_ = <<>>

increaseEdges(e, k) == (e + k) % SizeMod

decreaseEdges(e, k) == (e - k) % SizeMod

\* hash of a source node: the object's address
PtrHash(o) ==
  [name |-> "", type |-> "ptr", kids |-> <<>>, ptr |-> o, extra |-> <<>>]

\* boost::hash<string>(name), then hash_combine of type() and of every
\* child's hash
HashCombine(name, type, kids) ==
  [name |-> name, type |-> type, kids |-> kids, ptr |-> 0, extra |-> <<>>]

\* the classes of node_operators_unary.h that override hash(): the operator
\* parameter is combined into the seed NaryNodeOp::hash returns
HashesArg(kind) == kind \in {"sum", "mean", "sqrt", "rows", "reshape", "step"}

\* hash() of an object already in the heap: memoized for composite nodes
StoredHash(h, o) ==
  IF IsSource(h[o]) THEN PtrHash(o) ELSE h[o].hash_

\* NaryNodeOp::hash of node record n at address o
NaryHash(h, n, o) ==
  HashCombine(n.name_, n.kind,
              [i \in DOMAIN n.children_ |-> StoredHash(h, n.children_[i])])

\* node->hash(): the address of a source node, the memoized hash_, or
\* NaryNodeOp::hash, followed in the classes that override hash() by
\* hash_combine of the operator parameter
NodeHash(h, n, o) ==
  IF IsSource(n) THEN PtrHash(o)
  ELSE IF n.hash_ # NoHash THEN n.hash_
  ELSE [NaryHash(h, n, o) EXCEPT
          !.extra = IF HashesArg(n.kind) THEN n.arg ELSE <<>>]

FreshObj == CHOOSE o \in ObjIds \ DOMAIN heap :
              \A o2 \in ObjIds \ DOMAIN heap : o <= o2

\* ----------------------------------------------------------------- the graph
Graph == [heap |-> heap, count_ |-> count_, nodes_ |-> nodes_,
          tapes_ |-> tapes_, tapeMap_ |-> tapeMap_, topNodes_ |-> topNodes_,
          hashMap_ |-> hashMap_, ret |-> NoObj]

NextIdWrong(count) == 0

\* node->setId(count_++)
NextId(count) == count

GroupOfFirst(tm, children, i) ==
  IF i > Len(children) THEN 0 ELSE tm[children[i]] + 1

\* group = max(group, tapeMap_[child] + 1) over the children
RECURSIVE GroupOf(_, _, _)
GroupOf(tm, children, i) ==
  IF i > Len(children) THEN 0
  ELSE Max(tm[children[i]] + 1, GroupOf(tm, children, i + 1))

RECURSIVE AddEdgesToParent(_, _, _, _)
AddEdgesToParent(h, o, children, i) ==
  IF i > Len(children) THEN h
  ELSE AddEdgesToParent([h EXCEPT ![o].edges_ = increaseEdges(@, 2)],
                        o, children, i + 1)

\* child->increaseEdges(2); node->increaseEdges(2) for every child in turn
RECURSIVE AddEdges(_, _, _, _)
AddEdges(h, o, children, i) ==
  IF i > Len(children) THEN h
  ELSE LET c == children[i]
           h1 == [h EXCEPT ![c].edges_ = increaseEdges(@, 2)]
           h2 == [h1 EXCEPT ![o].edges_ = increaseEdges(@, 2)]
       IN AddEdges(h2, o, children, i + 1)

TapesPut(tapes, group, o) ==
  LET grown == IF group >= Len(tapes)
               THEN tapes \o [i \in 1 .. (group + 1 - Len(tapes)) |-> <<>>]
               ELSE tapes
  IN [grown EXCEPT ![group + 1] = Append(@, o)]

addNoCSE(g, n, o) ==
  LET hash == NodeHash(g.heap, n, o)
      n1 == [n EXCEPT !.hash_ = IF IsSource(n) THEN NoHash ELSE hash,
                      !.id_ = NextId(g.count_), !.nfwd = 0, !.nbwd = 0,
                      !.e0 = n.edges_]
      h1 == [x \in DOMAIN g.heap \cup {o} |-> IF x = o THEN n1 ELSE g.heap[x]]
      group == GroupOf(g.tapeMap_, n.children_, 1)
  IN [heap |-> AddEdges(h1, o, n.children_, 1),
      count_ |-> g.count_ + 1,
      nodes_ |-> Append(g.nodes_, o),
      tapes_ |-> TapesPut(g.tapes_, group, o),
      tapeMap_ |-> [x \in DOMAIN g.tapeMap_ \cup {o} |->
                      IF x = o THEN group ELSE g.tapeMap_[x]],
      topNodes_ |-> g.topNodes_ \cup {o},
      hashMap_ |-> [x \in DOMAIN g.hashMap_ \cup {hash} |->
                      IF x = hash THEN o ELSE g.hashMap_[x]],
      ret |-> o]

addNotTop(g, n, o) ==
  IF NodeHash(g.heap, n, o) \in DOMAIN g.hashMap_
  THEN [g EXCEPT !.ret = g.hashMap_[NodeHash(g.heap, n, o)]]
  ELSE [addNoCSE(g, n, o) EXCEPT !.topNodes_ = g.topNodes_]

addWithoutLookup(g, n, o) == addNoCSE(g, n, o)

\* ExpressionGraph::add(node): node is the record n at address o
add(g, n, o) ==
  LET hash == NodeHash(g.heap, n, o)
  IN IF hash \in DOMAIN g.hashMap_
     THEN [g EXCEPT !.ret = g.hashMap_[hash]]
     ELSE addNoCSE(g, n, o)

\* ExpressionGraph::remove_top_node for every child
\* (NaryNodeOp::remove_children_from_top_nodes)
remove_children_from_top_nodes(top, children) == top \ Range(children)

Call(op, args, ret, err) == [op |-> op, args |-> args, ret |-> ret, err |-> err]

NoError == "none"

Init ==
  /\ heap = [o \in {} |-> NewNode("input", <<>>, TRUE, DefaultShape)]
  /\ count_ = 0
  /\ nodes_ = <<>>
  /\ tapes_ = <<>>
  /\ tapeMap_ = [o \in {} |-> 0]
  /\ named_ = [s \in {} |-> NoObj]
  /\ inputs_ = <<>>
  /\ topNodes_ = {}
  /\ hashMap_ = [x \in {} |-> NoObj]
  /\ params = [s \in {} |-> NoObj]
  /\ pc = "idle"
  /\ it = 0
  /\ chain = FALSE
  /\ last = Call("new", <<>>, NoObj, NoError)
  /\ gen = 0
  /\ calls = 0
  /\ proto = TRUE
  /\ uaf = {}

\* nodes a generation may hold: later generations are explored with fewer
NodeBound == IF gen = 0 THEN MaxNodes ELSE MaxNodes - 1

\* API calls explored per generation
CallBound == IF gen = 0 THEN MaxCalls ELSE MaxCalls - 2

\* one more API call is made
Called == calls < CallBound /\ calls' = calls + 1

BuildOps == {"input", "constant", "param", "tanh", "logit"}

\* the handle the caller holds from the call just made
Handle ==
  IF last.op \in BuildOps THEN last.ret
  ELSE IF last.op \in {"set_name", "add_named_node", "debug"}
  THEN last.args[1]
  ELSE NoObj

\* the graph part of the state takes the value g
SetGraph(g) ==
  /\ heap' = g.heap
  /\ count_' = g.count_
  /\ nodes_' = g.nodes_
  /\ tapes_' = g.tapes_
  /\ tapeMap_' = g.tapeMap_
  /\ topNodes_' = g.topNodes_
  /\ hashMap_' = g.hashMap_

\* construction after a backward pass has run leaves the build, forward,
\* backward order of a generation
ProtoAfterBuild(g) ==
  proto /\ (Len(g.nodes_) > Len(nodes_) =>
              \A o \in Range(nodes_) : heap[o].nbwd = 0)

\* ExpressionGraph::input / Expression<InputNode>
Input ==
  /\ pc = "idle"
  /\ Called
  /\ count_ < NodeBound
  /\ LET o == FreshObj
         g == add(Graph, NewNode("input", <<>>, TRUE, DefaultShape), o)
     IN /\ SetGraph(g)
        /\ inputs_' = Append(inputs_, g.ret)
        /\ last' = Call("input", <<>>, g.ret, NoError)
        /\ proto' = ProtoAfterBuild(g)
  /\ UNCHANGED <<named_, params, pc, it, chain, gen, uaf>>

\* ExpressionGraph::constant / Expression<ConstantNode>
Constant ==
  /\ pc = "idle"
  /\ Called
  /\ count_ < NodeBound
  /\ LET o == FreshObj
         g == add(Graph, NewNode("const", <<>>, FALSE, DefaultShape), o)
     IN /\ SetGraph(g)
        /\ last' = Call("constant", <<>>, g.ret, NoError)
        /\ proto' = ProtoAfterBuild(g)
  /\ UNCHANGED <<named_, inputs_, params, pc, it, chain, gen, uaf>>

getParamsOnly(name) ==
  IF name \in DOMAIN params THEN params[name] ELSE NoObj

\* ExpressionGraph::get(name)
get(name) ==
  IF name \in DOMAIN params THEN params[name]
  ELSE IF name \in DOMAIN named_ THEN named_[name]
  ELSE NoObj

ParamFoundNever(name) == FALSE

\* auto p = params_.get(name); if(p)
ParamFound(name) == name \in DOMAIN params

\* ExpressionGraph::param(name, shape, args...)
Param(name, shape) ==
  /\ pc = "idle"
  /\ Called
  /\ IF ParamFound(name)
     THEN LET p == params[name]
              g == add(Graph, heap[p], p)
          IN /\ g.count_ <= NodeBound
             /\ SetGraph(g)
             /\ last' = Call("param", <<name, shape>>, p, NoError)
             /\ proto' = ProtoAfterBuild(g)
             /\ UNCHANGED params
     ELSE IF get(name) # NoObj
     THEN /\ last' = Call("param", <<name, shape>>, NoObj, "NameTaken")
          /\ UNCHANGED <<heap, count_, nodes_, tapes_, tapeMap_, topNodes_,
                         hashMap_, params, proto>>
     ELSE LET o == FreshObj
              g == add(Graph, NewNode("param", <<>>, TRUE, shape), o)
              p == g.ret
          IN /\ g.count_ <= NodeBound
             /\ SetGraph([g EXCEPT !.heap[p].name_ = name])
             /\ params' = [s \in DOMAIN params \cup {name} |->
                             IF s = name THEN p ELSE params[s]]
             /\ last' = Call("param", <<name, shape>>, p, NoError)
             /\ proto' = ProtoAfterBuild(g)
  /\ UNCHANGED <<named_, inputs_, pc, it, chain, gen, uaf>>

Kinds == {"tanh", "logit"}

Arity(kind) == IF kind = "tanh" THEN MaxArity ELSE 1

Operands(kind) == UNION {[1 .. k -> Range(nodes_)] : k \in 1 .. Arity(kind)}

AllTrainable(h, children) ==
  \A i \in DOMAIN children : h[children[i]].trainable_

\* NaryNodeOp::NaryNodeOp: trainable is the OR over the operands
AnyTrainable(h, children) ==
  \E i \in DOMAIN children : h[children[i]].trainable_

shapeThrowsNever(h, children, n, shape) == FALSE

\* TanhNodeOp::newShape: UTIL_THROW_IF2(shape[i] != shapen[i] &&
\* shape[i] != 1 && shapen[i] != 1, ...) against the shape accumulated so far
RECURSIVE shapeThrows(_, _, _, _)
shapeThrows(h, children, n, shape) ==
  IF n > Len(children) THEN FALSE
  ELSE LET shapen == h[children[n]].shape_
       IN IF \E i \in 1 .. 4 :
               shape[i] # shapen[i] /\ shape[i] # 1 /\ shapen[i] # 1
          THEN TRUE
          ELSE shapeThrows(h, children, n + 1,
                           [i \in 1 .. 4 |-> Max(shape[i], shapen[i])])

\* TanhNodeOp::newShape: the element-wise maximum of the operand shapes
\* (UnaryNodeOp: the operand's shape)
newShape(h, children) ==
  [d \in 1 .. 4 |->
     CHOOSE m \in {h[children[i]].shape_[d] : i \in DOMAIN children} :
       \A i \in DOMAIN children : h[children[i]].shape_[d] <= m]

\* Expression<TanhNodeOp>(nodes), Expression<LogitNodeOp>(a): the constructor
\* (trainable flag, children leave the top nodes), then ExpressionGraph::add
Composite(kind, cs) ==
  /\ pc = "idle"
  /\ Called
  /\ IF kind = "tanh" /\ shapeThrows(heap, cs, 2, heap[cs[1]].shape_)
     THEN /\ last' = Call(kind, cs, NoObj, "Shape")
          /\ UNCHANGED <<heap, count_, nodes_, tapes_, tapeMap_, topNodes_,
                         hashMap_, proto>>
     ELSE LET n == NewNode(kind, cs, AnyTrainable(heap, cs),
                           newShape(heap, cs))
              top == remove_children_from_top_nodes(topNodes_, cs)
              g == add([Graph EXCEPT !.topNodes_ = top], n, FreshObj)
          IN /\ g.count_ <= NodeBound
             /\ SetGraph(g)
             /\ last' = Call(kind, cs, g.ret, NoError)
             /\ proto' = ProtoAfterBuild(g)
  /\ UNCHANGED <<named_, inputs_, params, pc, it, chain, gen, uaf>>

\* the operator classes with a parameter
OpKinds ==
  {"sum", "mean", "sqrt", "rows", "reshape", "step", "layer_max_pooling"}

\* parameter values: the axis of sum and mean, the epsilon of sqrt, the row
\* indices of rows, the shape of reshape, the step of timestep, hPad and
\* wPad of max pooling
OpArgs(kind) ==
  IF kind \in {"sum", "mean"} THEN {<<-1>>, <<0>>}
  ELSE IF kind = "rows" THEN {<<0>>, <<0, 1>>}
  ELSE IF kind = "reshape" THEN {<<2, 1, 1, 1>>, <<1, 2, 1, 1>>}
  ELSE IF kind = "layer_max_pooling" THEN {<<0, 0>>, <<1, 1>>}
  ELSE {<<0>>, <<1>>}

\* the shape the constructor gives the node: newShape of sum, mean, rows and
\* timestep, the shape argument of reshape, the operand's shape for sqrt, the
\* output extents of a pooling window of the operand's size with stride 1
opShape(kind, shape, arg) ==
  IF kind \in {"sum", "mean"}
  THEN IF arg[1] # -1 THEN [shape EXCEPT ![arg[1] + 1] = 1] ELSE <<1, 1, 1, 1>>
  ELSE IF kind = "rows" THEN [shape EXCEPT ![1] = Len(arg)]
  ELSE IF kind = "reshape" THEN arg
  ELSE IF kind = "step" THEN [shape EXCEPT ![3] = 1, ![4] = 1]
  ELSE IF kind = "layer_max_pooling"
  THEN [shape EXCEPT ![3] = 1 + 2 * arg[1], ![4] = 1 + 2 * arg[2]]
  ELSE shape

\* Expression<SumNodeOp>(a, axis=ax), Expression<SqrtNodeOp>(a, epsilon), ...:
\* the constructor of the unary operator with its parameter, then
\* ExpressionGraph::add
Operator(kind, c, arg) ==
  /\ pc = "idle"
  /\ Called
  /\ LET n == [NewNode(kind, <<c>>, AnyTrainable(heap, <<c>>),
                       opShape(kind, heap[c].shape_, arg)) EXCEPT !.arg = arg]
         top == remove_children_from_top_nodes(topNodes_, <<c>>)
         g == add([Graph EXCEPT !.topNodes_ = top], n, FreshObj)
     IN /\ g.count_ <= NodeBound
        /\ SetGraph(g)
        /\ last' = Call(kind, <<c, arg>>, g.ret, NoError)
        /\ proto' = ProtoAfterBuild(g)
  /\ UNCHANGED <<named_, inputs_, params, pc, it, chain, gen, uaf>>

\* Node::set_name on a node of the graph
SetName(o, name) ==
  /\ pc = "idle"
  /\ Called
  /\ heap[o].kind # "param"
  /\ heap[o].name_ # name
  /\ heap' = [heap EXCEPT ![o].name_ = name]
  /\ last' = Call("set_name", <<o, name>>, NoObj, NoError)
  /\ UNCHANGED <<count_, nodes_, tapes_, tapeMap_, named_, inputs_, topNodes_,
                 hashMap_, params, pc, it, chain, gen, proto, uaf>>

AddNamedNodeNoCheck(o, name) ==
  /\ pc = "idle"
  /\ Called
  /\ named_' = [s \in DOMAIN named_ \cup {name} |->
                  IF s = name THEN o ELSE named_[s]]
  /\ last' = Call("add_named_node", <<o, name>>, NoObj, NoError)
  /\ UNCHANGED <<heap, count_, nodes_, tapes_, tapeMap_, inputs_, topNodes_,
                 hashMap_, params, pc, it, chain, gen, proto, uaf>>

\* ExpressionGraph::add_named_node(e, name)
AddNamedNode(o, name) ==
  /\ pc = "idle"
  /\ Called
  /\ IF name \in DOMAIN params \/ get(name) # NoObj
     THEN /\ last' = Call("add_named_node", <<o, name>>, NoObj, "NameTaken")
          /\ UNCHANGED named_
     ELSE /\ named_' = [s \in DOMAIN named_ \cup {name} |->
                          IF s = name THEN o ELSE named_[s]]
          /\ last' = Call("add_named_node", <<o, name>>, NoObj, NoError)
  /\ UNCHANGED <<heap, count_, nodes_, tapes_, tapeMap_, inputs_, topNodes_,
                 hashMap_, params, pc, it, chain, gen, proto, uaf>>

ClearKeepsNamed ==
  /\ pc = "idle"
  /\ gen < MaxGen
  /\ count_' = 0
  /\ nodes_' = <<>>
  /\ tapes_' = <<>>
  /\ tapeMap_' = [o \in {} |-> 0]
  /\ inputs_' = <<>>
  /\ topNodes_' = {}
  /\ hashMap_' = [x \in {} |-> NoObj]
  /\ heap' = [o \in Range(params) \cup Range(named_) |->
                [heap[o] EXCEPT !.touched = FALSE, !.nfwd = 0, !.nbwd = 0,
                               !.fval = "null", !.fedges = 0, !.bops = {},
                               !.nout = 0, !.e0 = 0, !.nfree = 0]]
  /\ last' = Call("clear", <<>>, NoObj, NoError)
  /\ gen' = gen + 1
  /\ calls' = 0
  /\ proto' = TRUE
  /\ uaf' = {}
  /\ UNCHANGED <<named_, params, pc, it, chain>>

\* ---------------------------------------------------------- load and save
\* the arrays of an npz file: name -> extents of the array
ArrayDims == {<<2>>, <<2, 1>>}

Files == UNION {[S -> ArrayDims] : S \in SUBSET Names}

\* cnpy::npz_t is a std::map: load() visits the arrays in the order of
\* their names
NameOrder == <<"none", "w">>

\* load(): the shape given to param() for an array of the file
loadShape(dims) ==
  IF Len(dims) = 2 THEN <<dims[1], dims[2], 1, 1>>
  ELSE IF Len(dims) = 1 THEN <<1, dims[1], 1, 1>>
  ELSE DefaultShape

FreshIn(h) == CHOOSE o \in ObjIds \ DOMAIN h :
                \A o2 \in ObjIds \ DOMAIN h : o <= o2

\* the loop of load(): param(name, shape, init) for every array; a throw of
\* param() ends the loop and keeps what the earlier iterations did
RECURSIVE loadEntries(_, _, _, _)
loadEntries(g, ps, file, todo) ==
  IF todo = <<>> THEN [g |-> g, ps |-> ps, err |-> NoError]
  ELSE LET name == Head(todo)
           shape == loadShape(file[name])
       IN IF ParamFound(name)
          THEN loadEntries(add(g, g.heap[params[name]], params[name]),
                           ps, file, Tail(todo))
          ELSE IF get(name) # NoObj
          THEN [g |-> g, ps |-> ps, err |-> "NameTaken"]
          ELSE LET g1 == add(g, NewNode("param", <<>>, TRUE, shape),
                             FreshIn(g.heap))
                   p == g1.ret
               IN loadEntries([g1 EXCEPT !.heap[p].name_ = name],
                              [s \in DOMAIN ps \cup {name} |->
                                 IF s = name THEN p ELSE ps[s]],
                              file, Tail(todo))

\* ExpressionGraph::load(name)
Load(file) ==
  /\ pc = "idle"
  /\ Called
  /\ LET r == loadEntries(Graph, params, file,
                          SelectSeq(NameOrder, LAMBDA s : s \in DOMAIN file))
     IN /\ r.g.count_ <= NodeBound
        /\ SetGraph(r.g)
        /\ params' = r.ps
        /\ last' = Call("load", <<file>>, NoObj, r.err)
        /\ proto' = ProtoAfterBuild(r.g)
  /\ UNCHANGED <<named_, inputs_, pc, it, chain, gen, uaf>>

\* ExpressionGraph::clear(): everything but the parameters goes; the nodes
\* of the generation are destroyed with their handles
Clear ==
  /\ pc = "idle"
  /\ gen < MaxGen
  /\ count_' = 0
  /\ nodes_' = <<>>
  /\ tapes_' = <<>>
  /\ tapeMap_' = [o \in {} |-> 0]
  /\ named_' = [s \in {} |-> NoObj]
  /\ inputs_' = <<>>
  /\ topNodes_' = {}
  /\ hashMap_' = [x \in {} |-> NoObj]
  /\ heap' = [o \in Range(params) |->
                [heap[o] EXCEPT !.touched = FALSE, !.nfwd = 0, !.nbwd = 0,
                               !.fval = "null", !.fedges = 0, !.bops = {},
                               !.nout = 0, !.e0 = 0, !.nfree = 0]]
  /\ last' = Call("clear", <<>>, NoObj, NoError)
  /\ gen' = gen + 1
  /\ calls' = 0
  /\ proto' = TRUE
  /\ uaf' = {}
  /\ UNCHANGED <<params, pc, it, chain>>

\* ------------------------------------------------------------ node storage
\* Node::allocate: the value buffer is taken from the arena if absent; in
\* dry mode the arena books the buffer without touching memory
allocate(n, fake) == [n EXCEPT !.val = "live"]

\* Node::free: value and gradient buffers go back to the arena
free(n, fake) ==
  [n EXCEPT !.val = IF @ = "live" THEN "freed" ELSE @,
            !.adj = IF @ = "live" THEN "freed" ELSE @]

\* ReshapeNodeOp and TimestepNodeOp: the nodes whose val() and grad() are
\* views of the child's buffers
ViewKinds == {"reshape", "step"}

\* the member functions the view classes declare, with the number of their
\* parameters: size_t allocate(), void free(), void forward(),
\* void backward(), void init_dependent(), void set_zero_adjoint()
ViewDeclares ==
  {<<"allocate", 0>>, <<"free", 0>>, <<"forward", 0>>, <<"backward", 0>>,
   <<"init_dependent", 0>>, <<"set_zero_adjoint", 0>>}

\* storage members declared by the operator class of a kind; the other
\* classes of node_operators_unary.h declare none
Declares(kind) == IF kind \in ViewKinds THEN ViewDeclares ELSE {}

\* v->m(fake) on an Expr is the virtual call of Chainable<Tensor>::m(bool):
\* a member of the operator class is its final overrider only if it takes
\* the bool parameter; otherwise Node::m(bool) runs
Overrides(kind, m) == <<m, 1>> \in Declares(kind)

\* v->allocate(fake) of the forward driver
vAllocate(n, fake) ==
  IF Overrides(n.kind, "allocate") THEN n ELSE allocate(n, fake)

\* v->free(fake) of the backward driver; the history field nfree counts the
\* calls
vFree(n, fake) ==
  LET m == [n EXCEPT !.nfree = @ + 1]
  IN IF Overrides(n.kind, "free") THEN m ELSE free(m, fake)

\* Node::set_zero_adjoint: a gradient buffer not yet touched in this pass is
\* acquired and zeroed; dry mode acquires it and writes nothing
set_zero_adjoint(n, fake) ==
  IF n.touched THEN n
  ELSE [n EXCEPT !.adj = "live", !.grad = IF fake THEN @ ELSE 0,
                 !.touched = TRUE]

\* Node::init_dependent: the gradient is seeded with 1; dry mode acquires
\* the buffer and writes nothing
init_dependent(n, fake) ==
  [n EXCEPT !.adj = "live", !.grad = IF fake THEN @ ELSE 1, !.touched = TRUE]

\* Parameters::allocateForward
allocateForward(h, ps, fake) ==
  [o \in DOMAIN h |-> IF o \in ps THEN allocate(h[o], fake) ELSE h[o]]

\* Parameters::allocateBackward and Parameters::set_zero_adjoint
zeroParams(h, ps, fake) ==
  [o \in DOMAIN h |->
     IF o \in ps
     THEN [h[o] EXCEPT !.adj = "live", !.grad = IF fake THEN @ ELSE 0,
                       !.touched = TRUE]
     ELSE h[o]]

\* --------------------------------------------------------------- the passes
\* for(child : v->children()) { v->decreaseEdges(1); child->decreaseEdges(1); }
RECURSIVE releaseEdges(_, _, _, _)
releaseEdges(h, v, children, i) ==
  IF i > Len(children) THEN h
  ELSE LET c == children[i]
           h1 == [h EXCEPT ![v].edges_ = decreaseEdges(@, 1)]
           h2 == [h1 EXCEPT ![c].edges_ = decreaseEdges(@, 1)]
       IN releaseEdges(h2, v, children, i + 1)

\* Node::init(bool) {}
init(n, fake) == n

\* Node::forward: runForward(forwardOps()); the history fields record the
\* value buffer and the edge count the ops found
runForward(n) ==
  [n EXCEPT !.nfwd = @ + 1, !.fval = n.val, !.fedges = n.edges_]

forwardAlways(n, fake) == runForward(n)

\* Node::forward(fake): if(!fake) runForward(forwardOps())
forward(n, fake) == IF fake THEN n ELSE runForward(n)

\* if(v->marked_for_debug() && !fake): the value is written to std::cerr
debugValue(n, fake) ==
  IF n.markedForDebug_ /\ ~fake THEN [n EXCEPT !.nout = @ + 1] ELSE n

forwardNodeReleaseFirst(h, v, fake) ==
  LET h1 == releaseEdges(h, v, h[v].children_, 1)
      h2 == [h1 EXCEPT ![v] = vAllocate(@, fake)]
      h3 == [h2 EXCEPT ![v] = init(@, fake)]
      h4 == [h3 EXCEPT ![v] = forward(@, fake)]
  IN [h4 EXCEPT ![v] = debugValue(@, fake)]

\* the loop body of ExpressionGraph::forward(pos, fake) for node v
forwardNode(h, v, fake) ==
  LET h1 == [h EXCEPT ![v] = vAllocate(@, fake)]
      h2 == [h1 EXCEPT ![v] = init(@, fake)]
      h3 == [h2 EXCEPT ![v] = forward(@, fake)]
      h4 == releaseEdges(h3, v, h[v].children_, 1)
  IN [h4 EXCEPT ![v] = debugValue(@, fake)]

\* storage the forward ops of v read after it was released
forwardReadsFreed(h, v) ==
  {c \in Range(h[v].children_) : h[c].val = "freed"}

\* for(child : v->children()) if(child->trainable()) child->set_zero_adjoint()
RECURSIVE zeroChildren(_, _, _, _)
zeroChildren(h, children, i, fake) ==
  IF i > Len(children) THEN h
  ELSE LET c == children[i]
           h1 == IF h[c].trainable_
                 THEN [h EXCEPT ![c] = set_zero_adjoint(@, fake)]
                 ELSE h
       IN zeroChildren(h1, children, i + 1, fake)

backwardOpAssign(h, v, c) == [h EXCEPT ![c].grad = h[v].grad]

\* one backward op of tanh / logit: Add(..., child->grad(), adj_, val_)
\* accumulates into the child's gradient; the local derivative is taken at
\* value 0, where it is 1
backwardOp(h, v, c) == [h EXCEPT ![c].grad = @ + h[v].grad]

RECURSIVE runBackwardUngated(_, _, _, _)
runBackwardUngated(h, v, children, i) ==
  IF i > Len(children) THEN h
  ELSE LET c == children[i]
           h1 == [backwardOp(h, v, c) EXCEPT ![v].bops = @ \cup {i}]
       IN runBackwardUngated(h1, v, children, i + 1)

\* Node::runBackward: op i runs if child i is trainable; the history field
\* bops records the ops of v that have run
RECURSIVE runBackward(_, _, _, _)
runBackward(h, v, children, i) ==
  IF i > Len(children) THEN h
  ELSE LET c == children[i]
           h1 == IF h[c].trainable_
                 THEN [backwardOp(h, v, c) EXCEPT ![v].bops = @ \cup {i}]
                 ELSE h
       IN runBackward(h1, v, children, i + 1)

\* if(v->edges() == 0 && v->name() == "none")
shouldFree(n) == n.edges_ = 0 /\ n.name_ = NONE

\* Node::backward(fake): if(!fake) runBackward(backwardOps())
backward(h, v, fake) ==
  IF fake THEN h ELSE runBackward(h, v, h[v].children_, 1)

\* if(v->trainable() && v->marked_for_debug() && !fake): the gradient is
\* written to std::cerr
debugGrad(n, fake) ==
  IF n.trainable_ /\ n.markedForDebug_ /\ ~fake
  THEN [n EXCEPT !.nout = @ + 1]
  ELSE n

backwardNodeFreeFirst(h, v, fake) ==
  LET cs == h[v].children_
      h1 == zeroChildren(h, cs, 1, fake)
      h2 == IF h1[v].trainable_ THEN backward(h1, v, fake) ELSE h1
      h3 == IF shouldFree(h2[v]) THEN [h2 EXCEPT ![v] = vFree(@, fake)] ELSE h2
      h4 == releaseEdges([h3 EXCEPT ![v].nbwd = @ + 1], v, cs, 1)
  IN [h4 EXCEPT ![v] = debugGrad(@, fake)]

backwardNodeFreesChildren(h, v, fake) ==
  LET cs == h[v].children_
      h1 == zeroChildren(h, cs, 1, fake)
      h2 == IF h1[v].trainable_ THEN backward(h1, v, fake) ELSE h1
      h3 == releaseEdges([h2 EXCEPT ![v].nbwd = @ + 1], v, cs, 1)
      h4 == [h3 EXCEPT ![v] = debugGrad(@, fake)]
  IN [o \in DOMAIN h4 |->
        IF o \in Range(cs) /\ h4[o].name_ = NONE
        THEN vFree(h4[o], fake)
        ELSE h4[o]]

\* the loop body of ExpressionGraph::backward(fake) for node v
backwardNode(h, v, fake) ==
  LET cs == h[v].children_
      h1 == zeroChildren(h, cs, 1, fake)
      h2 == IF h1[v].trainable_ THEN backward(h1, v, fake) ELSE h1
      h3 == releaseEdges([h2 EXCEPT ![v].nbwd = @ + 1], v, cs, 1)
      h4 == [h3 EXCEPT ![v] = debugGrad(@, fake)]
  IN IF shouldFree(h4[v]) THEN [h4 EXCEPT ![v] = vFree(@, fake)] ELSE h4

\* storage the backward ops of v read or write after it was released
backwardReadsFreed(h, v) ==
  IF h[v].trainable_ /\ \E c \in Range(h[v].children_) : h[c].trainable_
  THEN {x \in {v} : h[x].val = "freed"}
  ELSE {}

tooManyTopNodesNever(top) == FALSE

\* UTIL_THROW_IF2(topNodes_.size() > 1, ...)
tooManyTopNodes(top) == Cardinality(top) > 1

Evaluated == Cardinality({o \in Range(nodes_) : heap[o].nfwd > 0})

forwardBeginAtStart(pos) == 0

\* auto it = nodes_.begin() + pos
forwardBegin(pos) == pos

\* the dry-mode argument of the running pass
Fake == last.args[Len(last.args)]

\* forward(fake) and forward(pos, fake) up to the loop
ForwardCall(withParams, pos, chained, fake) ==
  /\ pc = "idle"
  /\ Called
  /\ heap' = IF withParams
             THEN allocateForward(heap, Range(params), fake)
             ELSE heap
  /\ pc' = "fwd"
  /\ it' = forwardBegin(pos)
  /\ chain' = chained
  /\ proto' = (proto /\ pos = Evaluated
                     /\ \A o \in Range(nodes_) : heap[o].nbwd = 0)
  /\ last' = Call(IF chained THEN "backprop"
                  ELSE IF withParams THEN "forward" ELSE "forward_pos",
                  <<pos, fake>>, NoObj, NoError)
  /\ UNCHANGED <<count_, nodes_, tapes_, tapeMap_, named_, inputs_, topNodes_,
                 hashMap_, params, gen, uaf>>

\* ExpressionGraph::forward(fake)
Forward(fake) == ForwardCall(TRUE, 0, FALSE, fake)

\* ExpressionGraph::forward(pos, fake)
ForwardPos(pos, fake) == ForwardCall(FALSE, pos, FALSE, fake)

\* ExpressionGraph::backprop(): forward() with the default fake = false
Backprop == ForwardCall(TRUE, 0, TRUE, FALSE)

ForwardStepStuck ==
  /\ pc = "fwd"
  /\ it < Len(nodes_)
  /\ UNCHANGED vars

ForwardStep ==
  /\ pc = "fwd"
  /\ it < Len(nodes_)
  /\ LET v == nodes_[it + 1]
     IN /\ heap' = forwardNode(heap, v, Fake)
        /\ uaf' = IF Fake THEN uaf ELSE uaf \cup forwardReadsFreed(heap, v)
  /\ it' = it + 1
  /\ UNCHANGED <<count_, nodes_, tapes_, tapeMap_, named_, inputs_, topNodes_,
                 hashMap_, params, pc, chain, last, gen, calls, proto>>

\* return std::distance(nodes_.begin(), it)
ForwardReturn ==
  /\ pc = "fwd"
  /\ it = Len(nodes_)
  /\ ~chain
  /\ pc' = "idle"
  /\ last' = [last EXCEPT !.ret = it]
  /\ UNCHANGED <<heap, count_, nodes_, tapes_, tapeMap_, named_, inputs_,
                 topNodes_, hashMap_, params, it, chain, gen, calls, proto,
                 uaf>>

BackwardEnterNoZero(op, fake) ==
  IF tooManyTopNodes(topNodes_)
  THEN /\ pc' = "idle"
       /\ last' = Call(op, <<fake>>, NoObj, "TopNodes")
       /\ UNCHANGED <<heap, it, proto>>
  ELSE /\ pc' = "bwd"
       /\ it' = Len(nodes_)
       /\ LET h0 == [o \in DOMAIN heap |-> [heap[o] EXCEPT !.touched = FALSE]]
          IN heap' = [o \in DOMAIN h0 |->
                        IF o \in topNodes_ THEN init_dependent(h0[o], fake)
                        ELSE h0[o]]
       /\ proto' = (proto /\ \A o \in Range(nodes_) :
                               heap[o].nfwd = 1 /\ heap[o].nbwd = 0)
       /\ last' = Call(op, <<fake>>, NoObj, NoError)

BackwardEnterZeroFirst(op, fake) ==
  IF tooManyTopNodes(topNodes_)
  THEN /\ pc' = "idle"
       /\ last' = Call(op, <<fake>>, NoObj, "TopNodes")
       /\ heap' = zeroParams(heap, Range(params), fake)
       /\ UNCHANGED <<it, proto>>
  ELSE /\ pc' = "bwd"
       /\ it' = Len(nodes_)
       /\ LET h0 == [o \in DOMAIN heap |-> [heap[o] EXCEPT !.touched = FALSE]]
              h1 == zeroParams(h0, Range(params), fake)
          IN heap' = [o \in DOMAIN h1 |->
                        IF o \in topNodes_ THEN init_dependent(h1[o], fake)
                        ELSE h1[o]]
       /\ proto' = (proto /\ \A o \in Range(nodes_) :
                               heap[o].nfwd = 1 /\ heap[o].nbwd = 0)
       /\ last' = Call(op, <<fake>>, NoObj, NoError)

\* backward(fake) up to its loop: the check of the top nodes, the parameter
\* gradients, the seed
BackwardEnter(op, fake) ==
  IF tooManyTopNodes(topNodes_)
  THEN /\ pc' = "idle"
       /\ last' = Call(op, <<fake>>, NoObj, "TopNodes")
       /\ UNCHANGED <<heap, it, proto>>
  ELSE /\ pc' = "bwd"
       /\ it' = Len(nodes_)
       /\ LET h0 == [o \in DOMAIN heap |-> [heap[o] EXCEPT !.touched = FALSE]]
              h1 == zeroParams(h0, Range(params), fake)
          IN heap' = [o \in DOMAIN h1 |->
                        IF o \in topNodes_ THEN init_dependent(h1[o], fake)
                        ELSE h1[o]]
       /\ proto' = (proto /\ \A o \in Range(nodes_) :
                               heap[o].nfwd = 1 /\ heap[o].nbwd = 0)
       /\ last' = Call(op, <<fake>>, NoObj, NoError)

\* ExpressionGraph::backward(fake)
Backward(fake) ==
  /\ pc = "idle"
  /\ Called
  /\ BackwardEnter("backward", fake)
  /\ chain' = FALSE
  /\ UNCHANGED <<count_, nodes_, tapes_, tapeMap_, named_, inputs_, topNodes_,
                 hashMap_, params, gen, uaf>>

\* backprop(): forward() has returned, backward() is entered
BackpropBackward ==
  /\ pc = "fwd"
  /\ it = Len(nodes_)
  /\ chain
  /\ BackwardEnter("backprop", FALSE)
  /\ chain' = FALSE
  /\ UNCHANGED <<count_, nodes_, tapes_, tapeMap_, named_, inputs_, topNodes_,
                 hashMap_, params, gen, calls, uaf>>

BackwardStepFromBegin ==
  /\ pc = "bwd"
  /\ it > 0
  /\ LET v == nodes_[Len(nodes_) - it + 1]
     IN /\ heap' = backwardNode(heap, v, Fake)
        /\ uaf' = IF Fake THEN uaf ELSE uaf \cup backwardReadsFreed(heap, v)
  /\ it' = it - 1
  /\ UNCHANGED <<count_, nodes_, tapes_, tapeMap_, named_, inputs_, topNodes_,
                 hashMap_, params, pc, chain, last, gen, calls, proto>>

BackwardStep ==
  /\ pc = "bwd"
  /\ it > 0
  /\ LET v == nodes_[it]
     IN /\ heap' = backwardNode(heap, v, Fake)
        /\ uaf' = IF Fake THEN uaf ELSE uaf \cup backwardReadsFreed(heap, v)
  /\ it' = it - 1
  /\ UNCHANGED <<count_, nodes_, tapes_, tapeMap_, named_, inputs_, topNodes_,
                 hashMap_, params, pc, chain, last, gen, calls, proto>>

BackwardReturn ==
  /\ pc = "bwd"
  /\ it = 0
  /\ pc' = "idle"
  /\ UNCHANGED <<heap, count_, nodes_, tapes_, tapeMap_, named_, inputs_,
                 topNodes_, hashMap_, params, it, chain, last, gen, calls,
                 proto, uaf>>

Build ==
  \/ Input
  \/ Constant
  \/ \E name \in Names : \E shape \in Shapes : Param(name, shape)
  \/ \E kind \in Kinds : \E cs \in Operands(kind) : Composite(kind, cs)
  \/ \E o \in {Handle} \cap Range(nodes_) :
       \E name \in UserNames : SetName(o, name)
  \/ \E o \in {Handle} \cap Range(nodes_) :
       \E name \in UserNames : AddNamedNode(o, name)
  \/ \E file \in Files : Load(file)

\* the passes called with the default fake = false
Pass ==
  \/ Forward(FALSE)
  \/ \E pos \in 0 .. Len(nodes_) : ForwardPos(pos, FALSE)
  \/ Backprop
  \/ ForwardStep
  \/ ForwardReturn
  \/ Backward(FALSE)
  \/ BackpropBackward
  \/ BackwardStep
  \/ BackwardReturn

Next == Build \/ Pass \/ Clear

Spec == Init /\ [][Next]_vars

\* ------------------------------------------------------------ termination
\* a pass is a loop of the calling thread that waits for nothing: its steps
\* and its return are taken whenever they are possible
PassesRun ==
  /\ WF_vars(ForwardStep)
  /\ WF_vars(ForwardReturn)
  /\ WF_vars(BackpropBackward)
  /\ WF_vars(BackwardStep)
  /\ WF_vars(BackwardReturn)

SpecFair == Init /\ [][Next]_vars /\ PassesRun

\* ------------------------------------------------------------- dry mode
\* Node::debug(message): the node is marked for debug output
Debug(o) ==
  /\ pc = "idle"
  /\ Called
  /\ ~heap[o].markedForDebug_
  /\ heap' = [heap EXCEPT ![o].markedForDebug_ = TRUE]
  /\ last' = Call("debug", <<o>>, NoObj, NoError)
  /\ UNCHANGED <<count_, nodes_, tapes_, tapeMap_, named_, inputs_, topNodes_,
                 hashMap_, params, pc, it, chain, gen, proto, uaf>>

BuildDry ==
  \/ Input
  \/ Constant
  \/ \E name \in Names : \E shape \in Shapes : Param(name, shape)
  \/ \E kind \in Kinds : \E cs \in Operands(kind) : Composite(kind, cs)
  \/ \E o \in {Handle} \cap Range(nodes_) : Debug(o)

\* the passes called in either mode
PassDry ==
  \/ \E fake \in BOOLEAN : Forward(fake)
  \/ \E pos \in 0 .. Len(nodes_) : \E fake \in BOOLEAN : ForwardPos(pos, fake)
  \/ Backprop
  \/ ForwardStep
  \/ ForwardReturn
  \/ \E fake \in BOOLEAN : Backward(fake)
  \/ BackpropBackward
  \/ BackwardStep
  \/ BackwardReturn

NextDry == BuildDry \/ PassDry

\* one generation of a graph whose passes run in dry mode or for real
SpecDry == Init /\ [][NextDry]_vars

\* ------------------------------------------- operators with a parameter
BuildOp ==
  \/ Input
  \/ \E kind \in OpKinds : \E c \in Range(nodes_) : \E arg \in OpArgs(kind) :
       Operator(kind, c, arg)

NextOp == BuildOp \/ Pass

\* one generation of a graph of inputs and parameterised unary operators
SpecOp == Init /\ [][NextOp]_vars

\* ------------------------------------------- save and load of parameters
\* extents of the parameter shapes the round trip is checked for
MaxExtent == 2

ParamShapes == [1 .. 4 -> 1 .. MaxExtent]

\* Shape::elements(): the number of values of a tensor
Elements(shape) == shape[1] * shape[2] * shape[3] * shape[4]

RECURSIVE Product(_)
Product(dims) == IF dims = <<>> THEN 1 ELSE Head(dims) * Product(Tail(dims))

\* save(): extents of the array written for a parameter
saveDims(shape) ==
  IF shape[1] = 1 THEN <<shape[2]>> ELSE <<shape[1], shape[2]>>

\* save(): one array per entry of params().getMap()
saveFile(h, ps) == [name \in DOMAIN ps |-> saveDims(h[ps[name]].shape_)]

\* load() on a graph without parameters and named nodes: param() creates a
\* parameter of the shape load() computes for every array of the file
loadedShapes(file) == [name \in DOMAIN file |-> loadShape(file[name])]

\* the graph after param(name, tbl[name]) for every name of tbl
RECURSIVE newParams(_, _, _, _)
newParams(g, ps, tbl, todo) ==
  IF todo = <<>> THEN [g |-> g, ps |-> ps]
  ELSE LET name == Head(todo)
           g1 == add(g, NewNode("param", <<>>, TRUE, tbl[name]),
                     FreshIn(g.heap))
           p == g1.ret
       IN newParams([g1 EXCEPT !.heap[p].name_ = name],
                    [s \in DOMAIN ps \cup {name} |->
                       IF s = name THEN p ELSE ps[s]],
                    tbl, Tail(todo))

EmptyGraph ==
  [heap |-> [o \in {} |-> NewNode("input", <<>>, TRUE, DefaultShape)],
   count_ |-> 0, nodes_ |-> <<>>, tapes_ |-> <<>>,
   tapeMap_ |-> [o \in {} |-> 0], topNodes_ |-> {},
   hashMap_ |-> [x \in {} |-> NoObj], ret |-> NoObj]

\* a graph whose parameters were created by param() and allocated by
\* forward()
InitIO ==
  \E tbl \in UNION {[S -> ParamShapes] : S \in SUBSET Names} :
    LET r == newParams(EmptyGraph, [s \in {} |-> NoObj], tbl,
                       SelectSeq(NameOrder, LAMBDA s : s \in DOMAIN tbl))
    IN /\ heap = [o \in DOMAIN r.g.heap |->
                    forward(init(allocate(r.g.heap[o], FALSE), FALSE), FALSE)]
       /\ count_ = r.g.count_
       /\ nodes_ = r.g.nodes_
       /\ tapes_ = r.g.tapes_
       /\ tapeMap_ = r.g.tapeMap_
       /\ topNodes_ = r.g.topNodes_
       /\ hashMap_ = r.g.hashMap_
       /\ params = r.ps
       /\ named_ = [s \in {} |-> NoObj]
       /\ inputs_ = <<>>
       /\ pc = "idle"
       /\ it = Len(r.g.nodes_)
       /\ chain = FALSE
       /\ last = Call("forward", <<0, FALSE>>, Len(r.g.nodes_), NoError)
       /\ gen = 0
       /\ calls = Len(r.g.nodes_) + 1
       /\ proto = TRUE
       /\ uaf = {}

\* ExpressionGraph::save(name): the result of the call is the file written
Save ==
  /\ pc = "idle"
  /\ last.op # "save"
  /\ \A name \in DOMAIN params : heap[params[name]].val = "live"
  /\ last' = Call("save", <<>>, saveFile(heap, params), NoError)
  /\ calls' = calls + 1
  /\ UNCHANGED <<heap, count_, nodes_, tapes_, tapeMap_, named_, inputs_,
                 topNodes_, hashMap_, params, pc, it, chain, gen, proto, uaf>>

NextIO == Save

SpecIO == InitIO /\ [][NextIO]_vars

\* ------------------------------------------------ the DL4MT model files
\* DL4MT::load: std::vector<std::string> parameters
parameters ==
  <<"Wemb",
    "encoder_U", "encoder_W", "encoder_b",
    "encoder_Ux", "encoder_Wx", "encoder_bx",
    "encoder_r_U", "encoder_r_W", "encoder_r_b",
    "encoder_r_Ux", "encoder_r_Wx", "encoder_r_bx",
    "ff_state_W", "ff_state_b",
    "Wemb_dec",
    "decoder_U", "decoder_W", "decoder_b",
    "decoder_Ux", "decoder_Wx", "decoder_bx",
    "decoder_W_comb_att", "decoder_b_att",
    "decoder_Wc_att", "decoder_U_att",
    "decoder_U_nl", "decoder_Wc", "decoder_b_nl",
    "decoder_Ux_nl", "decoder_Wcx", "decoder_bx_nl",
    "ff_logit_lstm_W", "ff_logit_lstm_b",
    "ff_logit_prev_W", "ff_logit_prev_b",
    "ff_logit_ctx_W", "ff_logit_ctx_b",
    "ff_logit_W", "ff_logit_b">>

\* DL4MT::load: std::vector<std::string> parametersNorm
parametersNorm ==
  <<"decoder_att_gamma1", "decoder_att_gamma2",
    "decoder_cell1_gamma1", "decoder_cell1_gamma2",
    "decoder_cell2_gamma1", "decoder_cell2_gamma2",
    "encoder_gamma1", "encoder_gamma2",
    "encoder_r_gamma1", "encoder_r_gamma2",
    "ff_logit_l1_gamma0", "ff_logit_l1_gamma1",
    "ff_logit_l1_gamma2", "ff_state_gamma">>

\* DL4MT::load: nameMap, file name -> parameter name
loadNameMap ==
  <<<<"decoder_U", "decoder_cell1_U">>,
    <<"decoder_W", "decoder_cell1_W">>,
    <<"decoder_b", "decoder_cell1_b">>,
    <<"decoder_Ux", "decoder_cell1_Ux">>,
    <<"decoder_Wx", "decoder_cell1_Wx">>,
    <<"decoder_bx", "decoder_cell1_bx">>,
    <<"decoder_U_nl", "decoder_cell2_U">>,
    <<"decoder_Wc", "decoder_cell2_W">>,
    <<"decoder_b_nl", "decoder_cell2_b">>,
    <<"decoder_Ux_nl", "decoder_cell2_Ux">>,
    <<"decoder_Wcx", "decoder_cell2_Wx">>,
    <<"decoder_bx_nl", "decoder_cell2_bx">>,
    <<"ff_logit_prev_W", "ff_logit_l1_W0">>,
    <<"ff_logit_prev_b", "ff_logit_l1_b0">>,
    <<"ff_logit_lstm_W", "ff_logit_l1_W1">>,
    <<"ff_logit_lstm_b", "ff_logit_l1_b1">>,
    <<"ff_logit_ctx_W", "ff_logit_l1_W2">>,
    <<"ff_logit_ctx_b", "ff_logit_l1_b2">>,
    <<"ff_logit_W", "ff_logit_l2_W">>,
    <<"ff_logit_b", "ff_logit_l2_b">>>>

\* DL4MT::save: nameMap, parameter name -> file name
saveNameMap ==
  <<<<"decoder_cell1_U", "decoder_U">>,
    <<"decoder_cell1_W", "decoder_W">>,
    <<"decoder_cell1_b", "decoder_b">>,
    <<"decoder_cell1_Ux", "decoder_Ux">>,
    <<"decoder_cell1_Wx", "decoder_Wx">>,
    <<"decoder_cell1_bx", "decoder_bx">>,
    <<"decoder_cell2_U", "decoder_U_nl">>,
    <<"decoder_cell2_W", "decoder_Wc">>,
    <<"decoder_cell2_b", "decoder_b_nl">>,
    <<"decoder_cell2_Ux", "decoder_Ux_nl">>,
    <<"decoder_cell2_Wx", "decoder_Wcx">>,
    <<"decoder_cell2_bx", "decoder_bx_nl">>,
    <<"ff_logit_l1_W0", "ff_logit_prev_W">>,
    <<"ff_logit_l1_b0", "ff_logit_prev_b">>,
    <<"ff_logit_l1_W1", "ff_logit_lstm_W">>,
    <<"ff_logit_l1_b1", "ff_logit_lstm_b">>,
    <<"ff_logit_l1_W2", "ff_logit_ctx_W">>,
    <<"ff_logit_l1_b2", "ff_logit_ctx_b">>,
    <<"ff_logit_l2_W", "ff_logit_W">>,
    <<"ff_logit_l2_b", "ff_logit_b">>>>

\* if(nameMap.count(name)) pName = nameMap[name]
mapped(nameMap, name) ==
  IF \E i \in DOMAIN nameMap : nameMap[i][1] = name
  THEN nameMap[CHOOSE i \in DOMAIN nameMap : nameMap[i][1] = name][2]
  ELSE name

\* DL4MT::load: the name a file array is registered under
loadName(name) == mapped(loadNameMap, name)

saveNameSwapped(name) ==
  IF name = "ff_logit_l1_W0" THEN "ff_logit_lstm_W"
  ELSE IF name = "ff_logit_l1_W1" THEN "ff_logit_prev_W"
  ELSE mapped(saveNameMap, name)

\* DL4MT::save: the name a parameter is written under
saveName(name) == mapped(saveNameMap, name)

\* DL4MT::load: the names looked up in the file; the layer-normalization
\* names are appended if the option is set
expected(layerNorm) ==
  IF layerNorm THEN parameters \o parametersNorm ELSE parameters

\* a model file is a set of arrays: the name, the extents and (as the
\* identity of the values) the name the array was written for
Array(name, dims, from) == [name |-> name, dims |-> dims, from |-> from]

missingNever(file, name) == FALSE

\* numpy.count(name) == 0
missing(file, name) == \A a \in file : a.name # name

\* numpy[name]: std::map::operator[] gives an empty array for an absent name
entry(file, name) ==
  IF \E a \in file : a.name = name
  THEN CHOOSE a \in file : a.name = name
  ELSE Array(name, <<>>, "")

\* the address of a node created in heap h
newAddress(h) == CHOOSE o \in 1 .. (Cardinality(DOMAIN h) + 1) : o \notin DOMAIN h

\* the graph, its parameter table and, as src, the array each parameter
\* created by load was initialised from
Loaded(g, ps, src, err) == [g |-> g, ps |-> ps, src |-> src, err |-> err]

\* the loop of DL4MT::load over the expected names: the throw for a name the
\* file lacks, the shape, the renaming, graph->param(pName, shape, init)
RECURSIVE dl4mtLoad(_, _, _)
dl4mtLoad(st, file, todo) ==
  IF todo = <<>> THEN st
  ELSE LET name == Head(todo)
           shape == loadShape(entry(file, name).dims)
           pName == loadName(name)
       IN IF missing(file, name)
          THEN [st EXCEPT !.err = "Parameter"]
          ELSE IF pName \in DOMAIN st.ps
          THEN dl4mtLoad([st EXCEPT !.g = add(@, @.heap[st.ps[pName]],
                                              st.ps[pName])],
                         file, Tail(todo))
          ELSE IF pName \in DOMAIN named_
          THEN [st EXCEPT !.err = "NameTaken"]
          ELSE LET g1 == add(st.g, NewNode("param", <<>>, TRUE, shape),
                             newAddress(st.g.heap))
                   p == g1.ret
               IN dl4mtLoad(
                    Loaded([g1 EXCEPT !.heap[p].name_ = pName],
                           [s \in DOMAIN st.ps \cup {pName} |->
                              IF s = pName THEN p ELSE st.ps[s]],
                           [s \in DOMAIN st.src \cup {pName} |->
                              IF s = pName THEN entry(file, name).from
                              ELSE st.src[s]],
                           NoError),
                    file, Tail(todo))

\* DL4MT::save: one array per entry of params().getMap() under its file
\* name, then the array decoder_c_tt
dl4mtSave(h, ps) ==
  {Array(saveName(n), saveDims(h[ps[n]].shape_), n) : n \in DOMAIN ps}
    \cup {Array("decoder_c_tt", <<1>>, "ctt")}

FileNames ==
  Range(parameters) \cup Range(parametersNorm) \cup {"decoder_c_tt"}

\* the files on disk: written by a model with or without layer
\* normalization, whole or with one array removed
ModelFiles ==
  {{Array(n, dims, n) : n \in (base \ gone)} :
     base \in {Range(parameters) \cup {"decoder_c_tt"}, FileNames},
     gone \in {{}} \cup {{n} : n \in FileNames},
     dims \in ArrayDims}

\* a DL4MT model with its option layer-normalization, an empty graph and a
\* model file on disk
InitDL4MT ==
  \E layerNorm \in BOOLEAN : \E file \in ModelFiles :
    /\ heap = EmptyGraph.heap
    /\ count_ = 0
    /\ nodes_ = <<>>
    /\ tapes_ = <<>>
    /\ tapeMap_ = [o \in {} |-> 0]
    /\ named_ = [s \in {} |-> NoObj]
    /\ inputs_ = <<>>
    /\ topNodes_ = {}
    /\ hashMap_ = [x \in {} |-> NoObj]
    /\ params = [s \in {} |-> NoObj]
    /\ pc = "idle"
    /\ it = 0
    /\ chain = FALSE
    /\ last = Call("DL4MT", <<layerNorm>>, file, NoError)
    /\ gen = 0
    /\ calls = 0
    /\ proto = TRUE
    /\ uaf = {}

\* DL4MT::load(graph, name): the result recorded is the array each created
\* parameter is initialised from
DL4MTLoad ==
  /\ pc = "idle"
  /\ Called
  /\ last.op = "DL4MT"
  /\ LET layerNorm == last.args[1]
         file == last.ret
         r == dl4mtLoad(Loaded(Graph, params, [s \in {} |-> ""], NoError),
                        file, expected(layerNorm))
     IN /\ SetGraph(r.g)
        /\ params' = r.ps
        /\ last' = Call("dl4mt_load", <<layerNorm, file>>, r.src, r.err)
        /\ proto' = ProtoAfterBuild(r.g)
  /\ UNCHANGED <<named_, inputs_, pc, it, chain, gen, uaf>>

\* DL4MT::save(graph, name): the result of the call is the file written
DL4MTSave ==
  /\ pc = "idle"
  /\ Called
  /\ last.op # "dl4mt_save"
  /\ DOMAIN params # {}
  /\ \A name \in DOMAIN params : heap[params[name]].val = "live"
  /\ last' = Call("dl4mt_save", <<>>, dl4mtSave(heap, params), NoError)
  /\ UNCHANGED <<heap, count_, nodes_, tapes_, tapeMap_, named_, inputs_,
                 topNodes_, hashMap_, params, pc, it, chain, gen, proto, uaf>>

NextDL4MT ==
  \/ DL4MTLoad
  \/ Forward(FALSE)
  \/ ForwardStep
  \/ ForwardReturn
  \/ DL4MTSave

\* a DL4MT model loads a file, runs forward and saves
SpecDL4MT == InitDL4MT /\ [][NextDL4MT]_vars

\* ------------------------------------------------------- graphviz export
\* Node::graphviz: the line of the node, then one line per child
RECURSIVE edgeLines(_, _, _)
edgeLines(v, children, i) ==
  IF i > Len(children) THEN <<>>
  ELSE <<[line |-> "edge", from |-> children[i], to |-> v]>>
         \o edgeLines(v, children, i + 1)

graphvizNodeNoEdges(h, v) ==
  <<[line |-> "node", node |-> v, type |-> h[v].kind, name |-> h[v].name_,
     id |-> h[v].id_, trainable |-> h[v].trainable_]>>

graphvizNode(h, v) ==
  <<[line |-> "node", node |-> v, type |-> h[v].kind, name |-> h[v].name_,
     id |-> h[v].id_, trainable |-> h[v].trainable_]>>
    \o edgeLines(v, h[v].children_, 1)

\* ExpressionGraph::graphviz: the nodes from nodes_.rbegin() to nodes_.rend()
RECURSIVE graphvizFrom(_, _, _)
graphvizFrom(h, nodes, i) ==
  IF i < 1 THEN <<>>
  ELSE graphvizNode(h, nodes[i]) \o graphvizFrom(h, nodes, i - 1)

graphviz == graphvizFrom(heap, nodes_, Len(nodes_))

topNodeFirst == nodes_[1]

\* ExpressionGraph::topNode(): return nodes_.back()
topNode == nodes_[Len(nodes_)]

\* ------------------------------------------------------------ the claims
Live == Range(nodes_)

Children(o) == heap[o].children_

Parents(o) == {v \in Live : o \in Range(Children(v))}

\* the step is the API call op(args)
Calling(op, args) ==
  calls' = calls + 1 /\ last'.op = op /\ last'.args = args

\* a backward pass has run to its end and nothing was called since
BackwardDone ==
  pc = "idle" /\ last.op \in {"backward", "backprop"} /\ last.err = NoError

\* the node holds storage of the arena
Holds(o) == heap[o].val = "live" \/ heap[o].adj = "live"

\* C1: in every reachable state every child of a node of the node list has
\* an id strictly smaller than the node's id, parameters reattached in a
\* later generation included.
C1_TopologicalOrder ==
  \A v \in Live : \A c \in Range(Children(v)) : heap[c].id_ < heap[v].id_

\* a later generation holds a composite node over a reattached parameter
C1_Witness ==
  /\ gen = 1
  /\ \E v \in Live : \E c \in Range(Children(v)) : heap[c].kind = "param"

\* C2: constructing a composite node with the kind, name and ordered
\* children of a node already in the graph returns that node and leaves the
\* node list, id counter, tape levels, top nodes, hash table and every node
\* field as they were.
C2_CSESound ==
  [][\A kind \in Kinds : \A cs \in Operands(kind) : \A o \in Live :
       (/\ Calling(kind, cs)
        /\ heap[o].kind = kind
        /\ heap[o].name_ = NONE
        /\ heap[o].children_ = cs)
       => /\ last'.ret = o
          /\ UNCHANGED <<heap, count_, nodes_, tapes_, tapeMap_, topNodes_,
                         hashMap_>>]_vars

\* a construction returned an unnamed node that is not the newest one
C2_Witness ==
  /\ last.op \in Kinds
  /\ last.ret \in Live
  /\ heap[last.ret].name_ = NONE
  /\ heap[last.ret].id_ + 1 < count_

\* C3: the node a construction returns has the kind, the name and the
\* children that were asked for (a new node is constructed unnamed), so two
\* structurally different constructions never share a node; also when a
\* node was named after it was added.
C3_CSEDistinct ==
  (last.op \in Kinds /\ last.err = NoError)
    => /\ heap[last.ret].kind = last.op
       /\ heap[last.ret].children_ = last.args
       /\ heap[last.ret].name_ = NONE

\* a backward() is entered in this step
BackwardAttempt ==
  \/ pc = "idle" /\ calls' = calls + 1 /\ last'.op = "backward"
  \/ pc = "fwd" /\ chain /\ pc' # "fwd"

\* C4: backward() with two or more top nodes fails with the top-node error
\* and does not enter its loop; with one top node it enters the loop, steps
\* through the nodes in turn and returns without an error.
C4_SingleRootBackward ==
  [][/\ (BackwardAttempt /\ Cardinality(topNodes_) >= 2)
          => (last'.err = "TopNodes" /\ pc' = "idle")
     /\ (BackwardAttempt /\ Cardinality(topNodes_) = 1)
          => (last'.err = NoError /\ pc' = "bwd" /\ it' = Len(nodes_))
     /\ (pc = "bwd")
          => /\ last'.err = NoError
             /\ \/ pc' = "bwd" /\ it' = it - 1
                \/ pc' = "idle" /\ it = 0]_vars

\* a backward pass over a graph of several nodes and one top node is done
C4_Witness ==
  BackwardDone /\ Cardinality(topNodes_) = 1 /\ Len(nodes_) >= 2

Seed(o) == IF o \in topNodes_ THEN 1 ELSE 0

RECURSIVE SumGrad(_, _)
SumGrad(S, o) ==
  IF S = {} THEN 0
  ELSE LET v == CHOOSE x \in S : TRUE
       IN Occurrences(Children(v), o) * heap[v].grad + SumGrad(S \ {v}, o)

\* C5: after backward() the gradient of every trainable node is the seed
\* (for the top node) plus the sum of the contributions of all its parents,
\* one per link; nothing a parent wrote is lost to a later zeroing.
C5_GradientAccumulation ==
  BackwardDone =>
    \A o \in Live :
      heap[o].trainable_ => heap[o].grad = Seed(o) + SumGrad(Parents(o), o)

\* a node with two distinct parents has received both contributions
C5_Witness ==
  /\ BackwardDone
  /\ \E o \in Live : /\ Cardinality(Parents(o)) = 2
                     /\ heap[o].trainable_
                     /\ heap[o].grad >= 2
\* C6: after backprop() on a graph built beforehand, every node forward
\* and backward evaluated once, every node of the node list has edge
\* count 0.
C6_EdgesZeroAfterBackprop ==
  (/\ BackwardDone
   /\ last.op = "backprop"
   /\ Cardinality(topNodes_) = 1
   /\ \A o \in Live : heap[o].nfwd = 1 /\ heap[o].nbwd = 1)
    => \A o \in Live : heap[o].edges_ = 0

\* the step is one iteration of the loop of backward()
BackwardIteration == pc = "bwd" /\ pc' = "bwd"

Traversed(h, o) ==
  \A v \in Live :
    (v = o \/ o \in Range(h[v].children_))
      => (h[v].children_ = <<>> \/ (h[v].nfwd >= 1 /\ h[v].nbwd >= 1))

\* a node's storage is released only with all its links traversed both
\* ways, and no step has touched released storage
FreedSafely ==
  /\ pc = "bwd" =>
       \A o \in Live : (Holds(o) /\ ~Holds(o)') => Traversed(heap', o)
  /\ uaf' = {}

\* C8 as claimed: in every sequence of constructions, forward(pos) and
\* backward() calls a node is released only after all its links were
\* traversed both ways and released storage is never touched again.
C8_NoUseAfterFreeAlways == [][FreedSafely]_vars

\* C8 amended: the same, in the generations in which every forward(pos)
\* continues where the previous one ended, backward() is called once, after
\* every node was evaluated, and nothing is constructed or evaluated after it.
C8_NoUseAfterFree == [][proto' => FreedSafely]_vars

\* such a generation has released a node that has a consumer
C8_Witness ==
  /\ proto
  /\ BackwardDone
  /\ \E o \in Live : heap[o].val = "freed" /\ Parents(o) # {}

\* C9: no node retrievable through get(name), parameter or named node, ever
\* has its storage released.
C9_NamedStorageKept ==
  \A name \in DOMAIN params \cup DOMAIN named_ :
    heap[get(name)].val # "freed" /\ heap[get(name)].adj # "freed"

C11_ClearFrame ==
  [][gen' = gen + 1
       => /\ nodes_' = <<>>
          /\ tapes_' = <<>>
          /\ DOMAIN tapeMap_' = {}
          /\ DOMAIN hashMap_' = {}
          /\ DOMAIN named_' = {}
          /\ inputs_' = <<>>
          /\ topNodes_' = {}
          /\ count_' = 0
          /\ params' = params]_vars

\* clear() has just emptied a graph that holds a parameter
C11_Witness ==
  /\ last.op = "clear"
  /\ gen = 1
  /\ DOMAIN params # {}
  /\ nodes_ = <<>>

\* C12: param(name, ...) with a name that is no parameter but is in the named
\* table fails with a naming-collision error; no parameter object is
\* created, the node list and the id counter stay as they were and the
\* parameter table is unchanged.
C12_ParamNameCollision ==
  [][\A name \in Names : \A shape \in Shapes :
       (/\ Calling("param", <<name, shape>>)
        /\ name \notin DOMAIN params
        /\ name \in DOMAIN named_)
       => /\ last'.err = "NameTaken"
          /\ last'.ret = NoObj
          /\ params' = params
          /\ heap' = heap
          /\ nodes_' = nodes_
          /\ count_' = count_
          /\ hashMap_' = hashMap_
          /\ named_' = named_]_vars

\* param() was refused for a name that the named table holds
C12_Witness ==
  /\ last.op = "param"
  /\ last.err = "NameTaken"
  /\ last.args[1] \in DOMAIN named_
  /\ last.args[1] \notin DOMAIN params

\* C13: add_named_node(e, name) with a name already used by a named node or
\* by a parameter fails with an error and leaves the named table unchanged;
\* with an unused name it succeeds, get(name) then returns e and the other
\* entries of the named table are kept.
C13_AddNamedNode ==
  [][\A o \in Live : \A name \in Names :
       Calling("add_named_node", <<o, name>>)
         => IF name \in DOMAIN params \cup DOMAIN named_
            THEN /\ last'.err = "NameTaken"
                 /\ named_' = named_
            ELSE /\ last'.err = NoError
                 /\ get(name)' = o
                 /\ DOMAIN named_' = DOMAIN named_ \cup {name}
                 /\ \A s \in DOMAIN named_ : named_'[s] = named_[s]]_vars

\* add_named_node was refused for a name the named table already holds, so
\* an earlier add_named_node with that name had succeeded
C13_Witness ==
  /\ last.op = "add_named_node"
  /\ last.err = "NameTaken"
  /\ last.args[2] \in DOMAIN named_
  /\ get(last.args[2]) \in Live

\* C14: in every state reached through param(), add_named_node(), load()
\* and clear() no name is a key of both the named table and the parameter
\* table.
C14_NamesDisjoint == DOMAIN named_ \cap DOMAIN params = {}

\* load() created a parameter and was then refused a name that a named node
\* holds
C14_Witness ==
  /\ last.op = "load"
  /\ last.err = "NameTaken"
  /\ DOMAIN params # {}
  /\ DOMAIN named_ # {}

\* C15: save(path) followed by load(path) on a fresh graph yields, for every
\* parameter, a parameter of the same name with the same four extents and as
\* many stored values; a parameter whose first extent is 1 is written as a
\* 1-D array of N values and read back with the shape (1, N).
C15_SaveLoadRoundTrip ==
  last.op = "save"
    => \A name \in DOMAIN params :
         LET shape == heap[params[name]].shape_
             file == last.ret
         IN /\ name \in DOMAIN loadedShapes(file)
            /\ loadedShapes(file)[name] = shape
            /\ Product(file[name]) = Elements(shape)
            /\ Elements(loadedShapes(file)[name]) = Elements(shape)
            /\ shape[1] = 1 => /\ Len(file[name]) = 1
                               /\ loadedShapes(file)[name][1] = 1
                               /\ loadedShapes(file)[name][2] = file[name][1]

\* lines of the export that satisfy a test
NodeLines(o) ==
  {i \in DOMAIN graphviz : graphviz[i].line = "node" /\ graphviz[i].node = o}

EdgeLines(c, v) ==
  {i \in DOMAIN graphviz :
     graphviz[i].line = "edge" /\ graphviz[i].from = c /\ graphviz[i].to = v}

\* C16: the graphviz export has exactly one node line for every node of the
\* node list, carrying its type, id and trainable flag, no node line for any
\* other object, and for every node exactly one edge line per child link.
C16_GraphvizComplete ==
  /\ \A o \in Live :
       /\ Cardinality(NodeLines(o)) = 1
       /\ \A i \in NodeLines(o) :
            /\ graphviz[i].type = heap[o].kind
            /\ graphviz[i].id = heap[o].id_
            /\ graphviz[i].trainable = heap[o].trainable_
  /\ \A i \in DOMAIN graphviz :
       graphviz[i].line = "node" => graphviz[i].node \in Live
  /\ \A v \in Live : \A c \in DOMAIN heap :
       Cardinality(EdgeLines(c, v)) = Occurrences(Children(v), c)
  /\ \A i \in DOMAIN graphviz :
       graphviz[i].line = "edge" => graphviz[i].to \in Live

\* the graph holds a node that uses one operand twice and a reattached
\* parameter
C16_Witness ==
  /\ gen = 1
  /\ \E v \in Live : \E c \in Live :
       Occurrences(Children(v), c) = 2 /\ heap[c].kind = "param"

\* two of the operands differ in an extent that is 1 in neither of them
Incompatible(cs) ==
  \E i \in DOMAIN cs : \E j \in DOMAIN cs : \E d \in 1 .. 4 :
    /\ heap[cs[i]].shape_[d] # heap[cs[j]].shape_[d]
    /\ heap[cs[i]].shape_[d] # 1
    /\ heap[cs[j]].shape_[d] # 1

\* C17: tanh over operands that are not broadcast-compatible raises a shape
\* error and the node list, the id counter, the top-node set and every edge
\* count stay as they were; over compatible operands the node returned has
\* in every dimension the largest extent of its operands.
C17_TanhShape ==
  [][\A cs \in Operands("tanh") :
       Calling("tanh", cs)
         => IF Incompatible(cs)
            THEN /\ last'.err = "Shape"
                 /\ nodes_' = nodes_
                 /\ count_' = count_
                 /\ topNodes_' = topNodes_
                 /\ DOMAIN heap' = DOMAIN heap
                 /\ \A o \in DOMAIN heap : heap'[o].edges_ = heap[o].edges_
            ELSE /\ last'.err = NoError
                 /\ \A d \in 1 .. 4 :
                      /\ \E i \in DOMAIN cs :
                           heap'[last'.ret].shape_[d] = heap[cs[i]].shape_[d]
                      /\ \A i \in DOMAIN cs :
                           heap[cs[i]].shape_[d]
                             <= heap'[last'.ret].shape_[d]]_vars

\* tanh was refused for its operands' shapes while the graph has a top node
C17_Witness ==
  /\ last.op = "tanh"
  /\ last.err = "Shape"
  /\ topNodes_ # {}

\* the step is one iteration of the loop of forward(pos)
ForwardIteration == pc = "fwd" /\ it' = it + 1

\* the running call is forward() or the forward() of backprop()
FullForward == last.op \in {"forward", "backprop"}

\* C18: forward() starts at the first node and returns after the last; each
\* iteration processes the next node of the node list, whose id is larger
\* than the ids of all nodes processed before, and processes no other node;
\* the forward ops of the node find its value buffer allocated and its edge
\* count not yet released, the release following in the same iteration; all
\* children of the node were processed by earlier iterations of the call.
C18_ForwardOrder ==
  [][/\ (pc = "idle" /\ pc' = "fwd" /\ FullForward') => it' = 0
     /\ (pc = "fwd" /\ pc' # "fwd") => it = Len(nodes_)
     /\ (ForwardIteration /\ FullForward)
          => \A v \in Live :
               v = nodes_[it + 1]
                 => /\ \A i \in 1 .. it : heap[nodes_[i]].id_ < heap[v].id_
                    /\ heap'[v].nfwd = heap[v].nfwd + 1
                    /\ \A o \in Live \ {v} : heap'[o].nfwd = heap[o].nfwd
                    /\ heap'[v].fval = "live"
                    /\ heap'[v].val = "live"
                    /\ heap'[v].fedges = heap[v].edges_
                    /\ heap'[v].edges_ =
                         decreaseEdges(heap[v].edges_,
                                       Len(Children(v))
                                         + Occurrences(Children(v), v))
                    /\ \A c \in Range(Children(v)) :
                         /\ \E i \in 1 .. it : nodes_[i] = c
                         /\ heap[c].nfwd >= 1
                         /\ c # v =>
                              heap'[c].edges_ =
                                decreaseEdges(heap[c].edges_,
                                              Occurrences(Children(v), c))]_vars

\* forward() is at a node with two child links, past its children
C18_Witness ==
  /\ pc = "fwd"
  /\ last.op = "forward"
  /\ it >= 2
  /\ Len(Children(nodes_[it])) = 2
  /\ heap[nodes_[it]].nfwd = 1

\* position of node o in the node list
Position(o) == CHOOSE i \in DOMAIN nodes_ : nodes_[i] = o

\* C19: backward() starts at the last node and returns after the first;
\* each iteration processes the node before the one processed last, whose
\* id is smaller than the ids of all nodes processed before; when the
\* backward ops of a node run, every parent of the node has been processed
\* by an earlier iteration of the same call.
C19_BackwardOrder ==
  [][/\ (pc # "bwd" /\ pc' = "bwd") => it' = Len(nodes_)
     /\ (pc = "bwd" /\ pc' # "bwd") => it = 0
     /\ BackwardIteration
          => \A v \in Live :
               v = nodes_[it]
                 => /\ it' = it - 1
                    /\ \A i \in (it + 1) .. Len(nodes_) :
                         heap[nodes_[i]].id_ > heap[v].id_
                    /\ heap'[v].nbwd = heap[v].nbwd + 1
                    /\ \A o \in Live \ {v} : heap'[o].nbwd = heap[o].nbwd
                    /\ \A p \in Parents(v) : Position(p) > it]_vars

\* backward() is about to process a node that has two parents
C19_Witness ==
  /\ pc = "bwd"
  /\ it >= 1
  /\ Cardinality(Parents(nodes_[it])) = 2

\* C20: when backward() enters its loop, no backward op has run in the call,
\* the gradient of the top node is 1 and the gradient of every other
\* parameter of the table is 0; when backward() returns, the gradient of a
\* parameter is the seed (if it is the top node) plus the contributions its
\* parents made in this call, and 0 for a parameter outside the node list,
\* whatever earlier passes or generations left in it.
C20_ParamGradientsFresh ==
  [][/\ (pc # "bwd" /\ pc' = "bwd")
          => /\ \A o \in Live : heap'[o].nbwd = heap[o].nbwd
             /\ \A o \in topNodes_ : heap'[o].grad = 1
             /\ \A p \in Range(params) \ topNodes_ : heap'[p].grad = 0
     /\ (pc = "bwd" /\ pc' = "idle")
          => \A p \in Range(params) :
               heap[p].grad = IF p \in Live
                              THEN Seed(p) + SumGrad(Parents(p), p)
                              ELSE 0]_vars

\* a parameter with a consumer has gone through a second backward() and
\* holds the contribution of that pass only
C20_Witness ==
  /\ BackwardDone
  /\ \E p \in Range(params) \cap Live :
       /\ Parents(p) # {}
       /\ heap[p].nbwd = 2
       /\ heap[p].grad = 1

\* the backward ops that have run belong to trainable nodes and to
\* trainable children
GatedOps(h) ==
  \A v \in DOMAIN h :
    /\ ~h[v].trainable_ => h[v].bops = {}
    /\ \A i \in h[v].bops : h[h[v].children_[i]].trainable_

\* the step zeroes or writes the gradient buffer of o
GradWritten(o) ==
  \/ heap'[o].grad # heap[o].grad
  \/ heap'[o].adj = "live" /\ heap[o].adj # "live"

C22_TrainableIsOr ==
  [][/\ \A v \in DOMAIN heap' :
          ~IsSource(heap'[v])
            => (heap'[v].trainable_
                  <=> \E i \in DOMAIN heap'[v].children_ :
                        heap'[heap'[v].children_[i]].trainable_)
     /\ \A kind \in Kinds : \A cs \in Operands(kind) :
          (Calling(kind, cs) /\ count_' = count_ + 1)
            => (heap'[last'.ret].trainable_
                  <=> \E i \in DOMAIN cs : heap[cs[i]].trainable_)]_vars

\* the graph holds a trainable node with a non-trainable child and a
\* trainable one
C22_Witness ==
  \E v \in Live :
    /\ heap[v].trainable_
    /\ \E c \in Range(Children(v)) : ~heap[c].trainable_
    /\ \E c \in Range(Children(v)) : heap[c].trainable_

\* tape levels (counted from 0) that hold node o
LevelsOf(o) == {g \in 0 .. (Len(tapes_) - 1) : o \in Range(tapes_[g + 1])}

LevelOf(o) == CHOOSE g \in LevelsOf(o) : TRUE

\* C23: every node of the node list is in exactly one tape level, once, and
\* the tape levels hold no other node; a node without children is in level
\* 0 and a node with children is in level 1 + the largest level of its
\* children; the level map agrees with the levels.
C23_TapeLevels ==
  /\ \A o \in Live :
       /\ Cardinality(LevelsOf(o)) = 1
       /\ Occurrences(tapes_[LevelOf(o) + 1], o) = 1
       /\ tapeMap_[o] = LevelOf(o)
       /\ IsSource(heap[o]) => LevelOf(o) = 0
       /\ ~IsSource(heap[o]) =>
            /\ \A c \in Range(Children(o)) : LevelOf(c) < LevelOf(o)
            /\ \E c \in Range(Children(o)) : LevelOf(o) = LevelOf(c) + 1
  /\ \A g \in DOMAIN tapes_ : Range(tapes_[g]) \subseteq Live

\* a node of level 2 has a child of level 0 and a child of level 1
C23_Witness ==
  \E v \in Live :
    /\ LevelOf(v) = 2
    /\ \E c \in Range(Children(v)) : LevelOf(c) = 0
    /\ \E c \in Range(Children(v)) : LevelOf(c) = 1

\* C24: in every state of a generation, whatever was constructed, found by
\* the hash lookup, refused or reattached, the top-node set is the set of
\* the nodes of the node list that are a child of no node of the node list.
C24_TopNodesAreOutputs == topNodes_ = {o \in Live : Parents(o) = {}}

\* param() was called for a parameter of the node list that already has a
\* consumer, and the hash lookup returned it
C24_Witness ==
  /\ last.op = "param"
  /\ last.err = NoError
  /\ last.ret \in Live
  /\ Parents(last.ret) # {}
  /\ topNodes_ # {}

\* what is left of the 2 a link adds to each of its ends: 1 goes with the
\* forward step of the link's parent v, 1 with its backward step
LinkLeft(v) ==
  2 - (IF heap[v].nfwd > 0 THEN 1 ELSE 0) - (IF heap[v].nbwd > 0 THEN 1 ELSE 0)

RECURSIVE SumLinks(_, _)
SumLinks(S, o) ==
  IF S = {} THEN 0
  ELSE LET v == CHOOSE x \in S : TRUE
       IN Occurrences(Children(v), o) * LinkLeft(v) + SumLinks(S \ {v}, o)

\* C25: at every point of a generation the edge count of a node is the sum,
\* over the links to its children and the links from its parents (a child
\* that occurs twice counted twice), of 2 minus 1 if the forward step of
\* the link's parent has run minus 1 if its backward step has run.
C25_EdgeAccounting ==
  \A o \in Live :
    heap[o].edges_ = Len(Children(o)) * LinkLeft(o) + SumLinks(Parents(o), o)

\* a pass of this generation has decremented the edge count of o
Decremented(o) ==
  \/ ~IsSource(heap[o]) /\ (heap[o].nfwd > 0 \/ heap[o].nbwd > 0)
  \/ \E v \in Parents(o) : heap[v].nfwd > 0 \/ heap[v].nbwd > 0

\* C26 as claimed: once a pass has decremented the edge count of a node, no
\* later step of the generation increases it, also when the graph is
\* extended after a forward pass and evaluated with forward(pos).
C26_EdgesOnlyDecrease ==
  [][\A o \in Live \cap Range(nodes_') :
       Decremented(o) => heap'[o].edges_ <= heap[o].edges_]_vars

\* link ends of o that the pass step at node v releases
Released(v, o) ==
  IF o = v THEN Len(Children(v)) ELSE Occurrences(Children(v), o)

\* links to o of the nodes the step appends to the node list
NewLinks(o) ==
  Cardinality({x \in (Range(nodes_') \ Live) \X (1 .. MaxArity) :
                 /\ x[2] \in DOMAIN heap'[x[1]].children_
                 /\ heap'[x[1]].children_[x[2]] = o})

\* C26 amended: a step of forward(pos) or backward() only decrements edge
\* counts, by one for every link end it releases, and no other step but a
\* construction changes a count; a construction that appends a node
\* increments the count of each of its children by 2 per link, also the
\* count of a child that a pass has decremented before, as happens when
\* the graph is extended after a forward pass.
C26_EdgesGrowOnlyInAdd ==
  [][\A o \in Live \cap Range(nodes_') :
       IF ForwardIteration \/ BackwardIteration
       THEN \A v \in Live :
              v = nodes_[IF pc = "fwd" THEN it + 1 ELSE it]
                => heap'[o].edges_ =
                     decreaseEdges(heap[o].edges_, Released(v, o))
       ELSE heap'[o].edges_ = increaseEdges(heap[o].edges_, 2 * NewLinks(o))]_vars

\* a node with children was evaluated forward and then became the child of
\* a node constructed afterwards
C26_Witness ==
  \E v \in Live : \E c \in Range(Children(v)) :
    /\ heap[v].nfwd = 0
    /\ ~IsSource(heap[c])
    /\ heap[c].nfwd > 0
    /\ heap[c].edges_ >= 2

\* C27: a node enters the node list of a generation with edge count 0: an
\* object that exists already, a parameter reattached by param() or load(),
\* has count 0 before the call, and a new object has the 2 per child link
\* that add() gives it and nothing else.
C27_EdgesZeroAtEntry ==
  [][\A o \in Range(nodes_') \ Range(nodes_) :
       IF o \in DOMAIN heap
       THEN heap[o].edges_ = 0
       ELSE heap'[o].edges_ = 2 * Len(heap'[o].children_)]_vars

\* C28: no step of forward(pos) or backward() applies decreaseEdges to a
\* count smaller than the decrement: the count of a node after the step is
\* its count before the step minus one for every link end of the node the
\* step releases, without a wrap-around.
C28_NoEdgeUnderflow ==
  [][(ForwardIteration \/ BackwardIteration)
       => \A v \in Live :
            v = nodes_[IF pc = "fwd" THEN it + 1 ELSE it]
              => /\ heap'[v].edges_ = heap[v].edges_ - Len(Children(v))
                 /\ \A c \in Live \ {v} :
                      heap'[c].edges_ =
                        heap[c].edges_ - Occurrences(Children(v), c)]_vars

\* the structural part of the node states: buffers held and edge counts
Structure(h) ==
  [o \in DOMAIN h |->
     [val |-> h[o].val, adj |-> h[o].adj, touched |-> h[o].touched,
      edges_ |-> h[o].edges_]]

\* the heap with which backward(false) enters its loop
RealSeed ==
  LET h0 == [o \in DOMAIN heap |-> [heap[o] EXCEPT !.touched = FALSE]]
      h1 == zeroParams(h0, Range(params), FALSE)
  IN [o \in DOMAIN h1 |->
        IF o \in topNodes_ THEN init_dependent(h1[o], FALSE) ELSE h1[o]]

\* the step executes no forward op, no backward op and no debug output
NoOpsRun ==
  \A o \in Live :
    /\ heap'[o].nfwd = heap[o].nfwd
    /\ heap'[o].bops = heap[o].bops
    /\ heap'[o].grad = heap[o].grad
    /\ heap'[o].nout = heap[o].nout

\* C29: every step of forward(fake) and backward(fake) in dry mode leaves
\* the buffers held and the edge counts as the same step of the real run
\* leaves them, visits the same node and raises the same error on several
\* top nodes; the dry step runs no forward op, no backward op and no debug
\* output, the real step runs the forward op of the node it visits.
C29_DryRun ==
  [][/\ (pc = "idle" /\ pc' = "fwd")
          => /\ it' = last'.args[1]
             /\ Structure(heap') =
                  Structure(IF last'.op = "forward_pos" THEN heap
                            ELSE allocateForward(heap, Range(params), FALSE))
             /\ NoOpsRun
     /\ ForwardIteration
          => \A v \in Live :
               v = nodes_[it + 1]
                 => /\ Structure(heap') = Structure(forwardNode(heap, v, FALSE))
                    /\ IF Fake THEN NoOpsRun
                       ELSE heap'[v].nfwd = heap[v].nfwd + 1
     /\ (pc = "idle" /\ calls' = calls + 1 /\ last'.op = "backward")
          => IF Cardinality(topNodes_) > 1
             THEN last'.err = "TopNodes" /\ pc' = "idle" /\ heap' = heap
             ELSE /\ last'.err = NoError
                  /\ pc' = "bwd"
                  /\ it' = Len(nodes_)
                  /\ Structure(heap') = Structure(RealSeed)
                  /\ last'.args[1] => NoOpsRun
     /\ BackwardIteration
          => \A v \in Live :
               v = nodes_[it]
                 => /\ Structure(heap') = Structure(backwardNode(heap, v, FALSE))
                    /\ heap'[v].nbwd = heap[v].nbwd + 1
                    /\ Fake => NoOpsRun]_vars

\* a dry forward and a dry backward have gone over a graph, releasing a
\* node, and no op has run
C29_Witness ==
  /\ BackwardDone
  /\ Fake
  /\ \E o \in Live : heap[o].val = "freed" /\ Parents(o) # {}
  /\ \A o \in Live : heap[o].nfwd = 0 /\ heap[o].bops = {}

RECURSIVE CountLinks(_, _)
CountLinks(S, o) ==
  IF S = {} THEN 0
  ELSE LET v == CHOOSE x \in S : TRUE
       IN Occurrences(Children(v), o) + CountLinks(S \ {v}, o)

\* link ends of node o: the links to its children and from its parents
LinkEnds(o) == Len(Children(o)) + CountLinks(Parents(o), o)

\* C30: forward(pos) starts at position pos, evaluates in every iteration
\* the node whose id is the position reached, once, and no other node, and
\* returns at the end of the node list with the node count; when forward
\* calls that each start where the previous one ended have covered a graph
\* built in several pieces, every node has been evaluated once and holds
\* the count it entered with plus one per link end, which is what one
\* forward() over the completed graph leaves of the 2 per link end.
C30_IncrementalForward ==
  [][/\ (pc = "idle" /\ pc' = "fwd")
          => it' = last'.args[1] /\ it' <= Len(nodes_)
     /\ ForwardIteration
          => \A v \in Live :
               v = nodes_[it + 1]
                 => /\ heap[v].id_ = it
                    /\ it >= last.args[1]
                    /\ heap'[v].nfwd = heap[v].nfwd + 1
                    /\ \A o \in Live \ {v} : heap'[o].nfwd = heap[o].nfwd
     /\ (pc = "fwd" /\ pc' = "idle" /\ ~chain)
          => /\ last'.ret = Len(nodes_)
             /\ last'.ret = count_
             /\ proto =>
                  \A o \in Live :
                    /\ heap[o].nfwd = 1
                    /\ heap[o].edges_ = increaseEdges(heap[o].e0, LinkEnds(o))]_vars

\* forward(r) has evaluated the extension of a graph that forward() had
\* evaluated before, a node of the extension reading a node of the first
\* part
C30_Witness ==
  /\ pc = "idle"
  /\ proto
  /\ last.op = "forward_pos"
  /\ last.args[1] >= 1
  /\ last.ret = Len(nodes_)
  /\ \E v \in Live : \E c \in Range(Children(v)) :
       heap[v].id_ >= last.args[1] /\ heap[c].id_ < last.args[1]

\* C31: when the forward driver calls allocate(fake) on a view node (reshape,
\* timestep) the node acquires no value buffer, and when the backward driver
\* calls free(fake) on it no buffer is released through it: the driver steps
\* on a view node leave its value and gradient buffers as they were.
C31_ViewsOutsideProtocol ==
  [][\A v \in Live : heap[v].kind \in ViewKinds =>
       /\ (pc = "fwd" /\ it' = it + 1 /\ v = nodes_[it'] =>
             heap'[v].val = heap[v].val)
       /\ (pc = "bwd" /\ it' = it - 1 /\ v = nodes_[it] =>
             /\ heap'[v].val = heap[v].val
             /\ heap'[v].adj = heap[v].adj)]_vars

\* C32: the node at position i of nodes_ has id i (counted from 0) and count_
\* equals the length of nodes_; no node occurs twice in nodes_ and no two nodes
\* of nodes_ have the same hash.
C32_SequentialIds ==
  /\ count_ = Len(nodes_)
  /\ \A i \in DOMAIN nodes_ : heap[nodes_[i]].id_ = i - 1
  /\ \A i, j \in DOMAIN nodes_ :
       i # j => /\ nodes_[i] # nodes_[j]
                /\ StoredHash(heap, nodes_[i]) # StoredHash(heap, nodes_[j])

\* a parameter requested again in the generation that already holds it, in a
\* graph of several nodes built after a clear()
C32_Witness ==
  /\ gen > 0
  /\ last.op = "param" /\ last.err = NoError
  /\ Len(nodes_) > 1
  /\ last.ret = nodes_[1]

\* C33: when nodes_ is not empty the node inserted last is a top node, so
\* topNodes_ is not empty, and when topNodes_ has one element topNode()
\* returns it.
C33_LastIsTop ==
  nodes_ # <<>> =>
    /\ topNode \in topNodes_
    /\ topNodes_ # {}
    /\ (Cardinality(topNodes_) = 1 => topNodes_ = {topNode})

\* a chain of three nodes with one top node, after a construction that was
\* answered by the hash lookup with a node other than the last
C33_Witness ==
  /\ Len(nodes_) = 3
  /\ Cardinality(topNodes_) = 1
  /\ last.op \in Kinds /\ last.err = NoError
  /\ last.ret \in Live /\ last.ret # topNode

\* the step in which backward(), called directly or as the second half of
\* backprop(), raises the top-node error
BackwardFails ==
  last'.err = "TopNodes" /\ (calls' = calls + 1 \/ pc = "fwd")

\* C34: a backward() that fails because there is more than one top node
\* changes nothing: no gradient, buffer or edge count of any node and no part
\* of the graph differs after the failed call.
C34_FailedBackwardNoChange ==
  [][BackwardFails =>
       /\ heap' = heap
       /\ UNCHANGED <<count_, nodes_, tapes_, tapeMap_, named_, inputs_,
                      topNodes_, hashMap_, params>>
       /\ pc' = "idle"]_vars

\* a failed backward() on a graph with a parameter whose gradient holds a
\* value of an earlier pass
C34_Witness ==
  /\ last.op = "backward" /\ last.err = "TopNodes"
  /\ \E p \in Range(params) \cap Live :
       heap[p].adj = "live" /\ heap[p].grad # 0

\* backprop() has returned in a generation that built its graph and then
\* called backprop() once
BackpropDone == BackwardDone /\ last.op = "backprop" /\ proto

\* C35: after backprop() on a fully constructed graph with one top node, free
\* has been called once on every node of nodes_ whose name is "none" (source
\* nodes and the top node included) and never on a node with another name.
C35_FreeOncePerUnnamed ==
  BackpropDone =>
    \A o \in Live :
      heap[o].nfree = IF heap[o].name_ = NONE THEN 1 ELSE 0

\* the step constructs an operator of the kind, over the child and with a
\* parameter other than the parameter of node o
DiffersInParameter(o) ==
  /\ calls' = calls + 1
  /\ last'.op \in OpKinds
  /\ heap[o].kind = last'.op
  /\ heap[o].children_ = <<last'.args[1]>>
  /\ heap[o].arg # last'.args[2]

\* C36: an operator constructed over the same child as an existing node of
\* its kind but with another operator parameter (axis, epsilon, row indices,
\* target shape, step, padding) is not answered with the existing node.
C36_ParametersKeptApart ==
  [][\A o \in Live : DiffersInParameter(o) => last'.ret # o]_vars

\* the model was built with layer normalization: its graph holds the
\* layer-normalization parameters
layerNormModel ==
  \E i \in DOMAIN parametersNorm : parametersNorm[i] \in DOMAIN params

\* C37: the renaming tables of DL4MT::load and DL4MT::save are mutual
\* inverses: load of the file save wrote registers, for every parameter name
\* n of the graph, the array written for n under the name n again, and save
\* writes no two parameters under the same file name.
C37_RenamingInverse ==
  last.op = "dl4mt_save" =>
    LET file == last.ret
        r == dl4mtLoad(Loaded(EmptyGraph, [s \in {} |-> NoObj],
                              [s \in {} |-> ""], NoError),
                       file, expected(layerNormModel))
    IN /\ \A n \in DOMAIN params : n \in DOMAIN r.src /\ r.src[n] = n
       /\ \A a, b \in file : a.name = b.name => a = b

\* a model with layer normalization has saved its parameters: the renamed
\* parameter decoder_cell1_U is in the file as decoder_U
C37_Witness ==
  /\ last.op = "dl4mt_save"
  /\ layerNormModel
  /\ "decoder_cell1_U" \in DOMAIN params
  /\ \E a \in last.ret : a.name = "decoder_U" /\ a.from = "decoder_cell1_U"

\* the file has no array of the name
Lacks(file, name) == ~(\E a \in file : a.name = name)

\* C38: DL4MT::load fails with the parameter error if the file lacks a name
\* of the expected list (with the layer-normalization names when the option is
\* set); if no expected name is missing, load succeeds and every expected
\* parameter is registered in the parameter table of the graph.
C38_LoadChecksNames ==
  last.op = "dl4mt_load" =>
    LET names == Range(expected(last.args[1]))
        file == last.args[2]
    IN IF \E n \in names : Lacks(file, n)
       THEN last.err = "Parameter"
       ELSE /\ last.err = NoError
            /\ \A n \in names :
                 /\ loadName(n) \in DOMAIN params
                 /\ heap[params[loadName(n)]].name_ = loadName(n)

\* load with layer normalization set has failed on a file that holds every
\* name of the list parameters and lacks a layer-normalization name
C38_Witness ==
  /\ last.op = "dl4mt_load"
  /\ last.err = "Parameter"
  /\ last.args[1]
  /\ \A n \in Range(parameters) : ~Lacks(last.args[2], n)
  /\ Lacks(last.args[2], "ff_state_gamma")

\* a step of a pass: forward(pos) starts at pos, visits the node at the
\* iterator, advances by one and returns at end(); backward() starts at
\* rbegin(), visits the node at the iterator and returns at rend(); a
\* backward() that raises the top-node error has visited no node
VisitsInOrder ==
  /\ (pc = "idle" /\ pc' = "fwd" => it' = last'.args[1])
  /\ (pc = "fwd" /\ pc' = "fwd" =>
        /\ it < Len(nodes_) /\ it' = it + 1
        /\ \A o \in Live :
             heap'[o].nfwd = heap[o].nfwd + (IF o = nodes_[it'] THEN 1 ELSE 0))
  /\ (pc = "fwd" /\ pc' # "fwd" => it = Len(nodes_))
  /\ (pc # "bwd" /\ pc' = "bwd" => it' = Len(nodes_))
  /\ (pc = "bwd" /\ pc' = "bwd" =>
        /\ it > 0 /\ it' = it - 1
        /\ \A o \in Live :
             heap'[o].nbwd = heap[o].nbwd + (IF o = nodes_[it] THEN 1 ELSE 0))
  /\ (pc = "bwd" /\ pc' # "bwd" => it = 0)
  /\ (last' # last /\ last'.err = "TopNodes" =>
        /\ pc' = "idle"
        /\ \A o \in Live : heap'[o].nbwd = heap[o].nbwd)

\* C39: forward(pos) and backward() terminate; each visits every node of its
\* range once, in order, or backward() raises the top-node error before it
\* visits a node.
C39_Termination ==
  /\ [][VisitsInOrder]_vars
  /\ (pc # "idle") ~> (pc = "idle")

\* backprop() has returned from a graph of three nodes, each visited by both
\* passes
C39_Witness ==
  /\ BackwardDone /\ last.op = "backprop"
  /\ Len(nodes_) = 3
  /\ \A o \in Live : heap[o].nfwd = 1 /\ heap[o].nbwd = 1
====
